---- MODULE Spec2Model ----
(***************************************************************************)
(* Rupee Loom: the data access facade (DataContext.refreshData), the       *)
(* budget progress calculator (Budgets.budgetProgress) and the dashboard   *)
(* aggregator (Dashboard.monthlyStats).                                    *)
(*                                                                         *)
(* Spec           the facade: sign-in and sign-out, refresh invocations    *)
(*                with their eight collection fetches, store writes.       *)
(* SpecPage       the QuickExpense and Budgets pages on top of the facade: *)
(*                form submissions, remote writes, the refresh after them. *)
(* SpecCalc       the two calculators over expense and budget snapshots    *)
(*                drawn from bounded sets.                                 *)
(* SpecPeriods    the budget progress calculator over budgets of every     *)
(*                period.                                                  *)
(* SpecDashboard  the dashboard aggregator over a loaded session with      *)
(*                regret expenses, inactive budgets and recurring payments.*)
(* SpecSlices     the dashboard's display slices.                          *)
(*                                                                         *)
(* Time is counted in JavaScript Date instants (milliseconds).  The store  *)
(* keeps timestamps at a finer resolution: SubTicks store units make one   *)
(* instant.  A month is MonthLen instants long.  Money is counted in the   *)
(* smallest unit of decimal(12,2).                                         *)
(***************************************************************************)
EXTENDS Integers, Sequences, FiniteSets, TLC

VARIABLES
    user,            \* AuthContext: the signed-in user, or Null
    store,           \* remote table store: collection -> rows of the user
    snapshot,        \* DataProvider useState: collection -> rows held in memory
    loading,         \* DataProvider useState loading
    pc,              \* refresh invocation -> "idle" | "returned" | "fetching" |
                     \* "settled" | "done"
    issued,          \* refresh invocation -> collection -> store length when issued
    requests,        \* refresh invocation -> the fetches it sent to the store
    results,         \* refresh invocation -> collection -> fetch result
    log,             \* history: the starts and completions of refresh invocations,
                     \* each with the snapshots it left
    now,             \* wall clock, in instants
    budgetProgress,  \* Budgets page: the budgetProgress memo
    renderedAt,      \* Budgets page: the instant of its latest render, -1 before
    monthlyStats,    \* Dashboard page: the monthlyStats memo
    slices,          \* Dashboard page: recentExpenses, activeChallenges, unreadInsights
    authLoading,     \* useAuth().loading as Layout reads it
    view,            \* Layout: the route it rendered last and what it returned
    isSubmitting,    \* page -> useState isSubmitting
    errors,          \* page -> formState.errors: the fields that failed validation
    showForm,        \* Budgets page: useState showForm
    editingBudget,   \* Budgets page: useState editingBudget, <<>> for null
    ops              \* the submissions and delete clicks of the session, each
                     \* with the stage its handler has reached

vars == <<user, store, snapshot, loading, pc, issued, requests, results, log,
          now, budgetProgress, renderedAt, monthlyStats, slices, authLoading, view,
          isSubmitting, errors, showForm, editingBudget, ops>>

facadeVars == <<user, store, snapshot, loading, pc, issued, requests, results, log>>
calcVars == <<now, budgetProgress, renderedAt, monthlyStats, slices, authLoading, view>>
pageVars == <<isSubmitting, errors, showForm, editingBudget, ops>>

Null == "null"

\* a memo before its first computation, and after
NotComputed == [computed |-> FALSE]
Computed(v) == [computed |-> TRUE, value |-> v]

----------------------------------------------------------------------------
(* Bounds *)

MaxExpenses == 2
MaxBudgets == 1
MonthLen == 2
SubTicks == 2
MaxRefreshes == 2
MaxWrites == 1
MaxFailures == 1
MaxPayments == 1
MaxExtra == 1
DayLen == 1

----------------------------------------------------------------------------
(* Rows *)

CategoryIds == {"c1", "c2"}
Periods == {"monthly"}
ExpenseAmounts == {1, 2}
BudgetAmounts == {0, 3}

\* The calculators are evaluated in month 1 of the model's time line.
WindowFirst == MonthLen * SubTicks
WindowLast == 2 * MonthLen * SubTicks - 1
ExpenseDates == {WindowFirst - 1, WindowFirst, WindowLast, WindowLast + 1}

ExpenseRows ==
    [category_id : CategoryIds \cup {Null}, amount : ExpenseAmounts, date : ExpenseDates,
     is_regret : {FALSE}]

BudgetRows ==
    [category_id : {"c1"}, amount : BudgetAmounts, period : Periods]

SeqsUpTo(S, n) == UNION {[1..k -> S] : k \in 0..n}

\* .order('date', { ascending: false }): the order the expenses are fetched in
SortedByDateDesc(rows) ==
    \A i \in 1..(Len(rows) - 1) : rows[i].date >= rows[i + 1].date

\* budgets of every period; start_date and end_date are the first and the
\* last instant of the month the budget was saved in, as ISO timestamps
BudgetSpans ==
    {[start_date |-> 0, end_date |-> (MonthLen - 1) * SubTicks],
     [start_date |-> WindowFirst, end_date |-> (2 * MonthLen - 1) * SubTicks]}

PeriodBudgetRows ==
    {[category_id |-> "c1", amount |-> 3, period |-> p,
      start_date |-> span.start_date, end_date |-> span.end_date] :
        p \in {"weekly", "monthly", "yearly"}, span \in BudgetSpans}

PeriodExpenseRows ==
    [category_id : {"c1"}, amount : ExpenseAmounts, date : ExpenseDates, is_regret : {FALSE}]

\* budgets that may share a category: the table has no uniqueness constraint
\* on (user_id, category_id)
SharedBudgetRows == [category_id : CategoryIds, amount : {3}, period : Periods]

SharedExpenseRows ==
    [category_id : {"c1", Null}, amount : ExpenseAmounts,
     date : {WindowFirst - 1, WindowFirst}, is_regret : {FALSE}]

\* the rows of a loaded dashboard: expenses in and out of the month, with and
\* without regret; budgets, active or not, saved this month or the month
\* before; recurring payments due before and after the evaluation instant
DashExpenseRows ==
    [id : {0}, user_id : {"u1"}, deleted : {FALSE}, category_id : {Null},
     amount : ExpenseAmounts, date : {WindowFirst - 1, WindowFirst}, is_regret : BOOLEAN]

DashBudgetRows ==
    {[id |-> 0, user_id |-> "u1", deleted |-> FALSE, category_id |-> "c1", amount |-> 3,
      period |-> "monthly", is_active |-> a,
      start_date |-> span.start_date, end_date |-> span.end_date] :
        a \in BOOLEAN, span \in BudgetSpans}

\* 7 in 7 * 24 * 60 * 60 * 1000
DaysAhead == 7

\* a day is DayLen instants.  Due dates around an evaluation at instant
\* MonthLen: an instant before it, three days, seven days and eight days
\* after it
DueDates ==
    {(MonthLen - 1) * SubTicks, (MonthLen + 3 * DayLen) * SubTicks,
     (MonthLen + DaysAhead * DayLen) * SubTicks, (MonthLen + 8 * DayLen) * SubTicks}

PaymentRows ==
    [id : {0}, user_id : {"u1"}, deleted : {FALSE}, is_active : {TRUE}, amount : {1},
     next_due_date : DueDates]

\* expenses.slice(0, 5), .slice(0, 3), .slice(0, 3)
RecentCount == 5
ChallengesShown == 3
InsightsShown == 3

SliceExpenseRows ==
    [id : {0}, category_id : {Null}, amount : {1}, date : {WindowFirst - 1, WindowFirst},
     is_regret : {FALSE}]

ChallengeRows == [id : {0}, is_completed : BOOLEAN]

InsightRows == [id : {0}, is_read : BOOLEAN]

\* rows get their position as id
Numbered(rows) == [i \in DOMAIN rows |-> [rows[i] EXCEPT !.id = i]]

----------------------------------------------------------------------------
(* JavaScript numbers: a finite number is a fraction n/d with d > 0 *)

NaN == [kind |-> "NaN", n |-> 0, d |-> 1]
Infinity == [kind |-> "Infinity", n |-> 0, d |-> 1]

Num(k) == [kind |-> "finite", n |-> k, d |-> 1]

\* a / b on two integers with a >= 0, b >= 0
Divide(a, b) ==
    IF b = 0 THEN (IF a = 0 THEN NaN ELSE Infinity)
    ELSE [kind |-> "finite", n |-> a, d |-> b]

\* x * k for an integer k > 0
Times(x, k) ==
    IF x.kind # "finite" THEN x ELSE [x EXCEPT !.n = x.n * k]

\* Math.min(x, k) for an integer k
MathMin(x, k) ==
    IF x.kind = "NaN" THEN NaN
    ELSE IF x.kind = "Infinity" THEN Num(k)
    ELSE IF x.n < k * x.d THEN x ELSE Num(k)

----------------------------------------------------------------------------
(* date-fns *)

startOfMonth(t) == (t \div MonthLen) * MonthLen

endOfMonth(t) == startOfMonth(t) + MonthLen - 1

isWithinIntervalOpenEnd(t, start, end) == t >= start /\ t < end

isWithinInterval(t, start, end) == t >= start /\ t <= end

\* new Date(expense.date): an ISO timestamp parsed to an instant; digits
\* beyond the millisecond are dropped.
ParseDate(d) == d \div SubTicks

RECURSIVE SumAmounts(_)
\* rows.reduce((sum, row) => sum + row.amount, 0)
SumAmounts(rows) ==
    IF rows = <<>> THEN 0 ELSE rows[1].amount + SumAmounts(Tail(rows))

----------------------------------------------------------------------------
(* Budgets page: budgetProgress *)

categoryExpensesAnyCategory(budget, expenses, monthStart, monthEnd) ==
    LET Keep(expense) ==
            isWithinInterval(ParseDate(expense.date), monthStart, monthEnd)
    IN  SelectSeq(expenses, Keep)

categoryExpensesInBudgetSpan(budget, expenses, monthStart, monthEnd) ==
    LET Keep(expense) ==
            /\ expense.category_id = budget.category_id
            /\ isWithinInterval(ParseDate(expense.date), ParseDate(budget.start_date),
                                ParseDate(budget.end_date))
    IN  SelectSeq(expenses, Keep)

categoryExpenses(budget, expenses, monthStart, monthEnd) ==
    LET Keep(expense) ==
            /\ expense.category_id = budget.category_id
            /\ isWithinInterval(ParseDate(expense.date), monthStart, monthEnd)
    IN  SelectSeq(expenses, Keep)

remainingClamped(budget, spent) ==
    IF budget.amount - spent < 0 THEN 0 ELSE budget.amount - spent

remaining(budget, spent) == budget.amount - spent

percentageUnclamped(budget, spent) == Times(Divide(spent, budget.amount), 100)

percentage(budget, spent) ==
    MathMin(Times(Divide(spent, budget.amount), 100), 100)

isOverBudgetAtLimit(budget, spent) == spent >= budget.amount

isOverBudgetFromPercentage(budget, spent) ==
    percentage(budget, spent) = Num(100)

isOverBudget(budget, spent) == spent > budget.amount

BudgetProgress(budgets, expenses, currentMonth) ==
    LET monthStart == startOfMonth(currentMonth)
        monthEnd == endOfMonth(currentMonth)
    IN  [i \in DOMAIN budgets |->
            LET budget == budgets[i]
                spent == SumAmounts(categoryExpenses(budget, expenses, monthStart, monthEnd))
            IN  [budget |-> budget,
                 spent |-> spent,
                 remaining |-> remaining(budget, spent),
                 percentage |-> percentage(budget, spent),
                 isOverBudget |-> isOverBudget(budget, spent)]]

----------------------------------------------------------------------------
(* Dashboard page: monthlyStats *)

monthlyExpensesCategorised(expenses, monthStart, monthEnd) ==
    LET Keep(expense) ==
            /\ expense.category_id # Null
            /\ isWithinInterval(ParseDate(expense.date), monthStart, monthEnd)
    IN  SelectSeq(expenses, Keep)

monthlyExpenses(expenses, monthStart, monthEnd) ==
    LET Keep(expense) ==
            isWithinInterval(ParseDate(expense.date), monthStart, monthEnd)
    IN  SelectSeq(expenses, Keep)

regretSpendingOfAll(inMonth) == SumAmounts(inMonth)

\* monthlyExpenses.filter(expense => expense.is_regret).reduce(...)
regretSpending(inMonth) ==
    LET Regret(expense) == expense.is_regret
    IN  SumAmounts(SelectSeq(inMonth, Regret))

\* recurringPayments.filter(payment => new Date(payment.next_due_date)
\*     <= new Date(Date.now() + 7 * 24 * 60 * 60 * 1000))
upcomingPayments(recurringPayments, at) ==
    LET Due(payment) == ParseDate(payment.next_due_date) <= at + DaysAhead * DayLen
    IN  SelectSeq(recurringPayments, Due)

MonthlyStats(expenses, budgets, recurringPayments, currentMonth) ==
    LET monthStart == startOfMonth(currentMonth)
        monthEnd == endOfMonth(currentMonth)
        inMonth == monthlyExpenses(expenses, monthStart, monthEnd)
        totalSpent == SumAmounts(inMonth)
        totalBudget == SumAmounts(budgets)
    IN  [totalSpent |-> totalSpent,
         totalBudget |-> totalBudget,
         budgetRemaining |-> totalBudget - totalSpent,
         regretSpending |-> regretSpending(inMonth),
         upcomingPayments |-> upcomingPayments(recurringPayments, currentMonth),
         expenseCount |-> Len(inMonth)]

\* array.slice(0, n)
Slice(rows, n) == SubSeq(rows, 1, IF Len(rows) < n THEN Len(rows) ELSE n)

recentExpenses(expenses) == Slice(expenses, RecentCount)

activeChallengesSlicedFirst(savingsChallenges) ==
    LET Active(challenge) == ~challenge.is_completed
    IN  SelectSeq(Slice(savingsChallenges, ChallengesShown), Active)

activeChallenges(savingsChallenges) ==
    LET Active(challenge) == ~challenge.is_completed
    IN  Slice(SelectSeq(savingsChallenges, Active), ChallengesShown)

unreadInsights(insights) ==
    LET Unread(insight) == ~insight.is_read
    IN  Slice(SelectSeq(insights, Unread), InsightsShown)

DisplaySlices(expenses, savingsChallenges, insights) ==
    [recentExpenses |-> recentExpenses(expenses),
     activeChallenges |-> activeChallenges(savingsChallenges),
     unreadInsights |-> unreadInsights(insights)]

----------------------------------------------------------------------------
(* The pages' operations *)

Pages == {"QuickExpense", "Budgets"}

Handlers == 1..MaxWrites

OpKinds == {"expense.insert", "budget.insert", "budget.update", "budget.delete"}

\* onSubmit of a form, as opposed to handleDelete
Submits(kind) == kind \in {"expense.insert", "budget.insert", "budget.update"}

PageOf(kind) == IF kind = "expense.insert" THEN "QuickExpense" ELSE "Budgets"

\* the value of a number input: blank, or a number of minor units
Blank == [blank |-> TRUE, n |-> 0]
Typed(n) == [blank |-> FALSE, n |-> n]

\* defaultValues of the expense form: is_regret false, regret_reason '',
\* regret_intensity 3
NoData ==
    [amount |-> Blank, description |-> "", category_id |-> "",
     is_regret |-> FALSE, regret_reason |-> "", regret_intensity |-> 3]

\* a nullable number column
NoNumber == [isNull |-> TRUE, n |-> 0]
Number(n) == [isNull |-> FALSE, n |-> n]

\* no row was built
NoPayload ==
    [user_id |-> Null, amount |-> 0, description |-> "", category_id |-> Null,
     is_regret |-> FALSE, regret_reason |-> Null, regret_intensity |-> NoNumber]

\* a slot no operation has used yet
NoOp ==
    [kind |-> "none", pc |-> "idle", data |-> NoData, payload |-> NoPayload,
     user_id |-> Null, target |-> 0, confirmed |-> FALSE, awaiting |-> 0,
     toast |-> "none"]

----------------------------------------------------------------------------
(* Data access facade: DataProvider *)

Users == {"u1"}
OtherUser == "u2"

\* the accounts that sign in on this device, one after the other
Accounts == Users \cup {OtherUser}

\* the from(...) targets of refreshData, in the order of its Promise.all array
Collections ==
    <<"categories", "expenses", "budgets", "recurring_payments", "debts",
      "savings_challenges", "regret_purchases", "insights">>

CollectionNames == {Collections[i] : i \in DOMAIN Collections}

\* the tables the pages write: QuickExpense inserts expenses, Budgets
\* inserts, updates and deletes budgets
WrittenCollections == {"expenses", "budgets"}

\* the queries of refreshData that carry .eq('is_active', true)
ActiveOnly == {"budgets", "recurring_payments"}

\* The continuation handles the eight results with the same statement; the
\* fetches that may fail in the model are one of a written table and one of
\* a table the pages never write.
FailingCollections == {"expenses", "debts"}

Invocations == 1..MaxRefreshes

\* a nullable row list: result.data
NullData == [null |-> TRUE, rows |-> <<>>]
SomeData(rows) == [null |-> FALSE, rows |-> rows]

\* the state of one fetch promise
Pending == [status |-> "pending", data |-> NullData, error |-> FALSE]
Rejected == [status |-> "rejected", data |-> NullData, error |-> FALSE]
FulfilledWith(rows) == [status |-> "fulfilled", data |-> SomeData(rows), error |-> FALSE]
FulfilledError == [status |-> "fulfilled", data |-> NullData, error |-> TRUE]

Fulfilled(res) == res.status = "fulfilled"

Failed(res) == res = Rejected \/ res = FulfilledError

\* A table is kept as the sequence of row versions written to it: an insert
\* adds a row with a new id, an update adds a new version of a row, a delete
\* adds a version marked deleted.  TableOf gives the rows the table holds
\* after those writes, in the order of their insertion.
TableOf(versions) ==
    LET Latest(i) ==
            CHOOSE j \in i..Len(versions) :
                /\ versions[j].id = versions[i].id
                /\ \A k \in (j + 1)..Len(versions) : versions[k].id # versions[i].id
        marked == [i \in DOMAIN versions |->
                      [row |-> versions[Latest(i)],
                       first |-> \A j \in 1..(i - 1) : versions[j].id # versions[i].id]]
        Held(m) == m.first /\ ~m.row.deleted
        held == SelectSeq(marked, Held)
    IN  [i \in DOMAIN held |-> held[i].row]

SelectInactiveToo(c, u, k) ==
    LET Own(row) == row.user_id = u
    IN  SelectSeq(TableOf(SubSeq(store[c], 1, k)), Own)

\* select * ... .eq('user_id', user.id), and .eq('is_active', true) on the
\* two tables queried with it, on the table as it was after its first k writes
Select(c, u, k) ==
    LET Wanted(row) == row.user_id = u /\ (c \in ActiveOnly => row.is_active)
    IN  SelectSeq(TableOf(SubSeq(store[c], 1, k)), Wanted)

\* the next unused row id of a collection
NextId(c) == Len(store[c]) + 1

\* the rows every table holds before the session: one of each account, and
\* one more of the first account that is not active
InitialRows ==
    <<[id |-> 1, user_id |-> "u1", amount |-> 2, is_active |-> TRUE, deleted |-> FALSE],
      [id |-> 2, user_id |-> OtherUser, amount |-> 2, is_active |-> TRUE, deleted |-> FALSE],
      [id |-> 3, user_id |-> "u1", amount |-> 2, is_active |-> FALSE, deleted |-> FALSE]>>

\* the number of writes applied during the session
WriteCount ==
    LET RECURSIVE Count(_)
        Count(i) ==
            IF i = 0 THEN 0
            ELSE (Len(store[Collections[i]]) - Len(InitialRows)) + Count(i - 1)
    IN  Count(Len(Collections))

FailureCount ==
    Cardinality({rc \in Invocations \X FailingCollections : Failed(results[rc[1]][rc[2]])})

\* Promise.all is fulfilled once every input promise is fulfilled
AllFulfilled(r) == \A c \in CollectionNames : Fulfilled(results[r][c])

\* Promise.all is rejected as soon as one input promise is rejected
AnyRejected(r) == \E c \in CollectionNames : results[r][c] = Rejected

\* if (result.data) setX(result.data)
PublishedMerged(old, res) ==
    IF ~res.data.null THEN old \o res.data.rows ELSE old

PublishedBlanking(old, res) ==
    IF ~res.data.null THEN res.data.rows ELSE <<>>

Published(old, res) ==
    IF ~res.data.null THEN res.data.rows ELSE old

\* the snapshots after the continuation of invocation r: lines 147-154 when
\* Promise.all was fulfilled, the catch block when it was rejected
ContinuedPublishingAfterReject(r) ==
    [c \in CollectionNames |-> Published(snapshot[c], results[r][c])]

ContinuedUnlessNewerDone(r) ==
    IF AnyRejected(r) \/ (\E r2 \in Invocations : r2 > r /\ pc[r2] = "done") THEN snapshot
    ELSE [c \in CollectionNames |-> Published(snapshot[c], results[r][c])]

Continued(r) ==
    IF AnyRejected(r) THEN snapshot
    ELSE [c \in CollectionNames |-> Published(snapshot[c], results[r][c])]

\* the invocation the next call of refreshData becomes
NextInvocation == Cardinality({r \in Invocations : pc[r] # "idle"}) + 1

\* the invocations that handlers with a remote write under way will start
Reserved == Cardinality({h \in Handlers : ops[h].pc = "writing"})

RequestsExceptInsights(u) ==
    [i \in 1..(Len(Collections) - 1) |-> [from |-> Collections[i], user_id |-> u]]

\* the eight queries of the Promise.all array, lines 124-145
Requests(u) ==
    [i \in DOMAIN Collections |-> [from |-> Collections[i], user_id |-> u]]

\* the fetch invocation r sent for collection c
HasRequest(r, c) == \E i \in DOMAIN requests[r] : requests[r][i].from = c

RequestFor(r, c) ==
    requests[r][CHOOSE i \in DOMAIN requests[r] : requests[r][i].from = c]

\* refreshData called with the user u of the render it was created in, lines
\* 108-145: guard, setLoading(true), issue the fetches
StartRefresh(u) ==
    LET r == NextInvocation
    IN  IF u = Null
        THEN /\ pc' = [pc EXCEPT ![r] = "returned"]
             /\ UNCHANGED <<snapshot, loading, issued, requests, results, log>>
        ELSE /\ loading' = TRUE
             /\ pc' = [pc EXCEPT ![r] = "fetching"]
             /\ issued' = [issued EXCEPT ![r] = [c \in CollectionNames |-> Len(store'[c])]]
             /\ requests' = [requests EXCEPT ![r] = Requests(u)]
             /\ log' = Append(log, [ev |-> "start", r |-> r, snap |-> snapshot])
             /\ UNCHANGED <<snapshot, results>>

\* useEffect on [user]: a sign-in calls refreshData
SignIn(u) ==
    /\ user = Null
    /\ NextInvocation + Reserved \in Invocations
    /\ user' = u
    /\ UNCHANGED store
    /\ StartRefresh(u)
    /\ UNCHANGED calcVars
    /\ UNCHANGED pageVars

\* Sidebar.handleSignOut; useEffect on [user] runs and calls nothing
SignOut ==
    /\ user # Null
    /\ user' = Null
    /\ UNCHANGED <<store, snapshot, loading, pc, issued, requests, results, log>>
    /\ UNCHANGED calcVars
    /\ UNCHANGED pageVars

\* a caller invokes refreshData
RefreshData ==
    /\ NextInvocation + Reserved \in Invocations
    /\ UNCHANGED <<user, store>>
    /\ StartRefresh(user)
    /\ UNCHANGED calcVars
    /\ UNCHANGED pageVars

\* The store answers the eight fetches of an invocation.  Each fetch reads
\* its table at some moment after the invocation issued it: it sees the writes
\* that were applied when it was issued and any prefix of the writes applied
\* since.  Each fetch comes back with rows, with an error result and no data,
\* or as a rejected request.  Promise.all hands the eight results over together,
\* so the moments at which the single promises settle are one step here.
FetchAll(r) ==
    /\ pc[r] = "fetching"
    /\ \E failed \in SUBSET FailingCollections :
          /\ FailureCount + Cardinality(failed) <= MaxFailures
          /\ \E rejects \in SUBSET failed :
             \E seen \in [WrittenCollections -> 0..(Len(InitialRows) + MaxWrites)] :
                /\ \A c \in WrittenCollections :
                      seen[c] >= issued[r][c] /\ seen[c] <= Len(store[c])
                /\ results' = [results EXCEPT ![r] =
                      [c \in CollectionNames |->
                          IF ~HasRequest(r, c) THEN Pending
                          ELSE IF c \in rejects THEN Rejected
                          ELSE IF c \in failed THEN FulfilledError
                          ELSE IF c \in WrittenCollections
                               THEN FulfilledWith(Select(c, RequestFor(r, c).user_id, seen[c]))
                               ELSE FulfilledWith(Select(c, RequestFor(r, c).user_id,
                                                         Len(store[c])))]]
    /\ pc' = [pc EXCEPT ![r] = "settled"]
    /\ UNCHANGED <<user, store, snapshot, loading, issued, requests, log>>
    /\ UNCHANGED calcVars
    /\ UNCHANGED pageVars

\* the handlers that await invocation r
Awaiting(r) == {h \in Handlers : ops[h].pc = "refreshing" /\ ops[h].awaiting = r}

\* refreshData, lines 147-160: the continuation after await Promise.all, and
\* the rest of the handler that awaited it: the finally block of onSubmit
Continue(r) ==
    /\ pc[r] = "settled"
    /\ snapshot' = Continued(r)
    /\ loading' = FALSE
    /\ pc' = [pc EXCEPT ![r] = "done"]
    /\ log' = Append(log, [ev |-> "done", r |-> r, snap |-> Continued(r)])
    /\ ops' = [h \in Handlers |->
                  IF h \in Awaiting(r) THEN [ops[h] EXCEPT !.pc = "done"] ELSE ops[h]]
    /\ isSubmitting' = [p \in Pages |->
                  IF \E h \in Awaiting(r) : Submits(ops[h].kind) /\ PageOf(ops[h].kind) = p
                  THEN FALSE ELSE isSubmitting[p]]
    /\ UNCHANGED <<user, store, issued, requests, results>>
    /\ UNCHANGED calcVars
    /\ UNCHANGED <<errors, showForm, editingBudget>>

\* a page inserts a row of the signed-in user
StoreWrite(c) ==
    /\ user # Null
    /\ WriteCount < MaxWrites
    /\ store' = [store EXCEPT ![c] = Append(@,
                    [id |-> NextId(c), user_id |-> user, amount |-> 1,
                     is_active |-> TRUE, deleted |-> FALSE])]
    /\ UNCHANGED <<user, snapshot, loading, pc, issued, requests, results, log>>
    /\ UNCHANGED calcVars
    /\ UNCHANGED pageVars

FacadeInit ==
    /\ user = Null
    /\ store = [c \in CollectionNames |-> InitialRows]
    /\ snapshot = [c \in CollectionNames |-> <<>>]
    /\ loading = FALSE
    /\ pc = [r \in Invocations |-> "idle"]
    /\ issued = [r \in Invocations |-> [c \in CollectionNames |-> 0]]
    /\ requests = [r \in Invocations |-> <<>>]
    /\ results = [r \in Invocations |-> [c \in CollectionNames |-> Pending]]
    /\ log = <<>>

\* the memos before the first render
MemosIdle ==
    /\ budgetProgress = NotComputed
    /\ renderedAt = -1
    /\ monthlyStats = NotComputed
    /\ slices = NotComputed

\* Layout has rendered nothing yet
NoView == [route |-> "none", shows |-> "none", to |-> "none"]

\* the memos before the first render, in a session whose auth provider has
\* finished loading
CalcIdle ==
    /\ MemosIdle
    /\ authLoading = FALSE
    /\ view = NoView

\* the pages as they mount
PageIdle ==
    /\ isSubmitting = [p \in Pages |-> FALSE]
    /\ errors = [p \in Pages |-> {}]
    /\ showForm = FALSE
    /\ editingBudget = <<>>
    /\ ops = [h \in Handlers |-> NoOp]

Init ==
    /\ FacadeInit
    /\ now = MonthLen
    /\ CalcIdle
    /\ PageIdle

Next ==
    \/ \E u \in Users : SignIn(u)
    \/ RefreshData
    \/ \E r \in Invocations : FetchAll(r)
    \/ \E r \in Invocations : Continue(r)
    \/ \E c \in WrittenCollections : StoreWrite(c)

Spec == Init /\ [][Next]_vars

\* the facade while accounts sign in and out
SessionNext ==
    \/ \E u \in Accounts : SignIn(u)
    \/ SignOut
    \/ RefreshData
    \/ \E r \in Invocations : FetchAll(r)
    \/ \E r \in Invocations : Continue(r)

SpecSession == Init /\ [][SessionNext]_vars

----------------------------------------------------------------------------
(* QuickExpense and Budgets pages: forms, remote writes *)

\* min: { value: 0.01 }, in minor units
MinAmount == 1

FormAmounts == {Blank, Typed(0), Typed(MinAmount)}

ExpenseForms ==
    [amount : FormAmounts, description : {"", "tea"}, category_id : {""},
     is_regret : {FALSE}, regret_reason : {""}, regret_intensity : {3}]

BudgetForms ==
    [amount : FormAmounts, description : {""}, category_id : {"", "c1"},
     is_regret : {FALSE}, regret_reason : {""}, regret_intensity : {3}]

\* the five buttons of the regret intensity control
Intensities == 1..5

\* valid expense forms with the regret fields filled in every way
RegretForms ==
    [amount : {Typed(MinAmount)}, description : {"tea"}, category_id : {"", "c1"},
     is_regret : BOOLEAN, regret_reason : {"", "impulse"}, regret_intensity : Intensities]

\* required, min: the rules registered on an amount input
AmountBreaksRules(amount) == amount.blank \/ amount.n < MinAmount

ExpenseErrorsWithoutMin(data) ==
    {f \in {"amount"} : data.amount.blank}
        \cup {f \in {"description"} : data.description = ""}

\* handleSubmit on the expense form: the fields that fail their rules
ExpenseErrors(data) ==
    {f \in {"amount"} : AmountBreaksRules(data.amount)}
        \cup {f \in {"description"} : data.description = ""}

\* handleSubmit on the budget form
BudgetErrors(data) ==
    {f \in {"category_id"} : data.category_id = ""}
        \cup {f \in {"amount"} : AmountBreaksRules(data.amount)}

\* the slot the next operation takes
NextOp == Cardinality({h \in Handlers : ops[h].kind # "none"}) + 1

WriteFailures == Cardinality({h \in Handlers : ops[h].pc = "failed"})

\* the rows of the budgets table that row level security lets the caller
\* of op touch and that .eq('id', ...) selects
Targets(op) ==
    {i \in DOMAIN TableOf(store["budgets"]) :
        /\ TableOf(store["budgets"])[i].id = op.target
        /\ TableOf(store["budgets"])[i].user_id = op.user_id}

\* the store after it applied the remote write of op
Applied(op) ==
    IF op.kind = "expense.insert" \/ op.kind = "budget.insert"
    THEN LET c == IF op.kind = "expense.insert" THEN "expenses" ELSE "budgets"
         IN  [store EXCEPT ![c] = Append(@,
                 [id |-> NextId(c), user_id |-> op.user_id, amount |-> op.data.amount.n,
                  is_active |-> TRUE, deleted |-> FALSE])]
    ELSE IF Targets(op) = {} THEN store
    ELSE LET row == TableOf(store["budgets"])[CHOOSE i \in Targets(op) : TRUE]
         IN  IF op.kind = "budget.update"
             THEN [store EXCEPT !["budgets"] =
                      Append(@, [row EXCEPT !.amount = op.data.amount.n])]
             ELSE [store EXCEPT !["budgets"] = Append(@, [row EXCEPT !.deleted = TRUE])]

expenseDataKeepingRegretFields(data, u) ==
    [user_id |-> u,
     amount |-> data.amount.n,
     description |-> data.description,
     category_id |-> IF data.category_id = "" THEN Null ELSE data.category_id,
     is_regret |-> data.is_regret,
     regret_reason |-> data.regret_reason,
     regret_intensity |-> Number(data.regret_intensity)]

\* const expenseData = {...}: the row onSubmit builds from the form
expenseData(data, u) ==
    [user_id |-> u,
     amount |-> data.amount.n,
     description |-> data.description,
     category_id |-> IF data.category_id = "" THEN Null ELSE data.category_id,
     is_regret |-> data.is_regret,
     regret_reason |-> IF data.is_regret THEN data.regret_reason ELSE Null,
     regret_intensity |-> IF data.is_regret THEN Number(data.regret_intensity) ELSE NoNumber]

onSubmitWithoutUserGuard(u) == FALSE

\* if (!user) return;
onSubmitReturnsEarly(u) == u = Null

\* handleSubmit(onSubmit) of QuickExpense, lines 50-72: validation, guard,
\* setIsSubmitting(true), the insert is sent
SubmitExpense(data) ==
    /\ ~isSubmitting["QuickExpense"]
    /\ NextOp \in Handlers
    /\ NextInvocation + Reserved \in Invocations
    /\ errors' = [errors EXCEPT !["QuickExpense"] = ExpenseErrors(data)]
    /\ IF ExpenseErrors(data) # {}
       THEN /\ ops' = [ops EXCEPT ![NextOp] =
                          [NoOp EXCEPT !.kind = "expense.insert", !.pc = "invalid",
                                       !.data = data]]
            /\ UNCHANGED isSubmitting
       ELSE IF onSubmitReturnsEarly(user)
       THEN /\ ops' = [ops EXCEPT ![NextOp] =
                          [NoOp EXCEPT !.kind = "expense.insert", !.pc = "returned",
                                       !.data = data]]
            /\ UNCHANGED isSubmitting
       ELSE /\ ops' = [ops EXCEPT ![NextOp] =
                          [NoOp EXCEPT !.kind = "expense.insert", !.pc = "writing",
                                       !.data = data, !.user_id = user,
                                       !.payload = expenseData(data, user)]]
            /\ isSubmitting' = [isSubmitting EXCEPT !["QuickExpense"] = TRUE]
    /\ UNCHANGED <<showForm, editingBudget>>
    /\ UNCHANGED facadeVars
    /\ UNCHANGED calcVars

saveKindAlwaysInsert(editing) == "budget.insert"

\* if (editingBudget) ... update ... else ... insert
saveKind(editing) == IF editing # <<>> THEN "budget.update" ELSE "budget.insert"

\* .eq('id', editingBudget.id)
saveTarget(editing) == IF editing # <<>> THEN editing[1].id ELSE 0

\* handleSubmit(onSubmit) of Budgets, lines 52-86: validation, guard,
\* setIsSubmitting(true), the update or the insert is sent
SubmitBudget(data) ==
    /\ showForm
    /\ ~isSubmitting["Budgets"]
    /\ NextOp \in Handlers
    /\ NextInvocation + Reserved \in Invocations
    /\ errors' = [errors EXCEPT !["Budgets"] = BudgetErrors(data)]
    /\ LET kind == saveKind(editingBudget)
           target == saveTarget(editingBudget)
       IN  IF BudgetErrors(data) # {}
           THEN /\ ops' = [ops EXCEPT ![NextOp] =
                              [NoOp EXCEPT !.kind = kind, !.pc = "invalid", !.data = data,
                                           !.target = target]]
                /\ UNCHANGED isSubmitting
           ELSE IF onSubmitReturnsEarly(user)
           THEN /\ ops' = [ops EXCEPT ![NextOp] =
                              [NoOp EXCEPT !.kind = kind, !.pc = "returned", !.data = data,
                                           !.target = target]]
                /\ UNCHANGED isSubmitting
           ELSE /\ ops' = [ops EXCEPT ![NextOp] =
                              [NoOp EXCEPT !.kind = kind, !.pc = "writing", !.data = data,
                                           !.user_id = user, !.target = target]]
                /\ isSubmitting' = [isSubmitting EXCEPT !["Budgets"] = TRUE]
    /\ UNCHANGED <<showForm, editingBudget>>
    /\ UNCHANGED facadeVars
    /\ UNCHANGED calcVars

afterConfirmIgnoringAnswer(confirmed) == "writing"

\* if (!confirm('Are you sure you want to delete this budget?')) return;
afterConfirm(confirmed) == IF confirmed THEN "writing" ELSE "declined"

\* Budgets.handleDelete, lines 108-115: confirm, the delete is sent
HandleDelete(budget, confirmed) ==
    /\ NextOp \in Handlers
    /\ NextInvocation + Reserved \in Invocations
    /\ ops' = [ops EXCEPT ![NextOp] =
                  [NoOp EXCEPT !.kind = "budget.delete",
                               !.pc = afterConfirm(confirmed), !.confirmed = confirmed,
                               !.user_id = user, !.target = budget.id]]
    /\ UNCHANGED <<isSubmitting, errors, showForm, editingBudget>>
    /\ UNCHANGED facadeVars
    /\ UNCHANGED calcVars

\* the New Budget button
NewBudget ==
    /\ ~showForm
    /\ showForm' = TRUE
    /\ UNCHANGED <<isSubmitting, errors, editingBudget, ops>>
    /\ UNCHANGED facadeVars
    /\ UNCHANGED calcVars

\* Budgets.handleEdit
HandleEdit(budget) ==
    /\ editingBudget' = <<budget>>
    /\ showForm' = TRUE
    /\ UNCHANGED <<isSubmitting, errors, ops>>
    /\ UNCHANGED facadeVars
    /\ UNCHANGED calcVars

\* Budgets.handleCancel
HandleCancel ==
    /\ showForm
    /\ errors' = [errors EXCEPT !["Budgets"] = {}]
    /\ showForm' = FALSE
    /\ editingBudget' = <<>>
    /\ UNCHANGED <<isSubmitting, ops>>
    /\ UNCHANGED facadeVars
    /\ UNCHANGED calcVars

SucceededWithoutRefresh(h) ==
    /\ store' = Applied(ops[h])
    /\ ops' = [ops EXCEPT ![h] = [@ EXCEPT !.pc = "done", !.toast = "success"]]
    /\ isSubmitting' = [p \in Pages |->
                          IF Submits(ops[h].kind) /\ PageOf(ops[h].kind) = p
                          THEN FALSE ELSE isSubmitting[p]]
    /\ UNCHANGED <<errors, showForm, editingBudget>>
    /\ UNCHANGED <<user, snapshot, loading, pc, issued, requests, results, log>>

\* the write was applied: toast.success, reset(), for a budget save
\* setShowForm(false) and setEditingBudget(null), then refreshData() is called
\* and awaited
Succeeded(h) ==
    /\ store' = Applied(ops[h])
    /\ UNCHANGED user
    /\ StartRefresh(ops[h].user_id)
    /\ ops' = [ops EXCEPT ![h] =
                  [@ EXCEPT !.pc = "refreshing", !.awaiting = NextInvocation,
                            !.toast = "success"]]
    /\ errors' = IF Submits(ops[h].kind)
                 THEN [errors EXCEPT ![PageOf(ops[h].kind)] = {}] ELSE errors
    /\ showForm' = IF PageOf(ops[h].kind) = "Budgets" /\ Submits(ops[h].kind)
                   THEN FALSE ELSE showForm
    /\ editingBudget' = IF PageOf(ops[h].kind) = "Budgets" /\ Submits(ops[h].kind)
                        THEN <<>> ELSE editingBudget
    /\ UNCHANGED isSubmitting

CaughtClosingForm(h) ==
    /\ ops' = [ops EXCEPT ![h] = [@ EXCEPT !.pc = "failed", !.toast = "error"]]
    /\ isSubmitting' = [p \in Pages |->
                          IF Submits(ops[h].kind) /\ PageOf(ops[h].kind) = p
                          THEN FALSE ELSE isSubmitting[p]]
    /\ showForm' = FALSE
    /\ editingBudget' = <<>>
    /\ UNCHANGED errors
    /\ UNCHANGED facadeVars

\* the write was refused: the catch block shows toast.error, and the finally
\* block of onSubmit runs
Caught(h) ==
    /\ ops' = [ops EXCEPT ![h] = [@ EXCEPT !.pc = "failed", !.toast = "error"]]
    /\ isSubmitting' = [p \in Pages |->
                          IF Submits(ops[h].kind) /\ PageOf(ops[h].kind) = p
                          THEN FALSE ELSE isSubmitting[p]]
    /\ UNCHANGED <<errors, showForm, editingBudget>>
    /\ UNCHANGED facadeVars

\* the store answers the remote write of a handler, and the handler goes on
WriteSettles(h) ==
    /\ ops[h].pc = "writing"
    /\ \/ Succeeded(h)
       \/ WriteFailures < MaxFailures /\ Caught(h)
    /\ UNCHANGED calcVars

PageNext ==
    \/ \E u \in Users : SignIn(u)
    \/ \E r \in Invocations : FetchAll(r)
    \/ \E r \in Invocations : Continue(r)
    \/ \E data \in ExpenseForms : SubmitExpense(data)
    \/ \E data \in BudgetForms : SubmitBudget(data)
    \/ \E i \in DOMAIN snapshot["budgets"], confirmed \in BOOLEAN :
          HandleDelete(snapshot["budgets"][i], confirmed)
    \/ NewBudget
    \/ \E i \in DOMAIN snapshot["budgets"] : HandleEdit(snapshot["budgets"][i])
    \/ HandleCancel
    \/ \E h \in Handlers : WriteSettles(h)

SpecPage == Init /\ [][PageNext]_vars

----------------------------------------------------------------------------
(* The pages over loaded snapshots *)

\* Budgets page, lines 27-50: a render.  useMemo(..., [budgets, expenses])
\* computes the memo on the first render and returns the kept value while the
\* two snapshots are the same arrays; no specification with this page
\* replaces them.
BudgetsRender ==
    /\ budgetProgress' =
          IF budgetProgress.computed THEN budgetProgress
          ELSE Computed(BudgetProgress(snapshot["budgets"], snapshot["expenses"], now))
    /\ renderedAt' = now
    /\ UNCHANGED <<now, monthlyStats, slices, authLoading, view>>
    /\ UNCHANGED facadeVars
    /\ UNCHANGED pageVars

\* Dashboard page, lines 13-49: a render computes the memos
DashboardRender ==
    /\ monthlyStats' =
          Computed(MonthlyStats(snapshot["expenses"], snapshot["budgets"],
                                snapshot["recurring_payments"], now))
    /\ slices' =
          Computed(DisplaySlices(snapshot["expenses"], snapshot["savings_challenges"],
                                 snapshot["insights"]))
    /\ UNCHANGED <<now, budgetProgress, renderedAt, authLoading, view>>
    /\ UNCHANGED facadeVars
    /\ UNCHANGED pageVars

\* no refresh was called, no operation started
NothingUnderWay ==
    /\ loading = FALSE
    /\ pc = [r \in Invocations |-> "idle"]
    /\ issued = [r \in Invocations |-> [c \in CollectionNames |-> 0]]
    /\ requests = [r \in Invocations |-> <<>>]
    /\ results = [r \in Invocations |-> [c \in CollectionNames |-> Pending]]
    /\ log = <<>>
    /\ CalcIdle
    /\ PageIdle

\* a signed-in session after a refresh loaded expenses and budgets
CalcInit ==
    /\ user = "u1"
    /\ store = [c \in CollectionNames |-> <<>>]
    /\ \E expenses \in SeqsUpTo(ExpenseRows, MaxExpenses),
          budgets \in SeqsUpTo(BudgetRows, MaxBudgets) :
          /\ SortedByDateDesc(expenses)
          /\ snapshot = [c \in CollectionNames |->
                            IF c = "expenses" THEN expenses
                            ELSE IF c = "budgets" THEN budgets
                            ELSE <<>>]
    /\ now \in {MonthLen, 2 * MonthLen - 1}
    /\ NothingUnderWay

CalcNext == BudgetsRender \/ DashboardRender

SpecCalc == CalcInit /\ [][CalcNext]_vars

\* the wall clock advances by an instant, up to the first instant of the
\* month after the window
Tick ==
    /\ now < 2 * MonthLen
    /\ now' = now + 1
    /\ UNCHANGED <<budgetProgress, renderedAt, monthlyStats, slices, authLoading, view>>
    /\ UNCHANGED facadeVars
    /\ UNCHANGED pageVars

\* the pages stay open from the last instant of a month into the next month
ClockInit == CalcInit /\ now = 2 * MonthLen - 1

ClockNext == BudgetsRender \/ DashboardRender \/ Tick

SpecClock == ClockInit /\ [][ClockNext]_vars

\* a signed-in session after a refresh loaded budgets of several periods
PeriodsInit ==
    /\ user = "u1"
    /\ store = [c \in CollectionNames |-> <<>>]
    /\ \E expenses \in SeqsUpTo(PeriodExpenseRows, MaxExpenses),
          budgets \in SeqsUpTo(PeriodBudgetRows, MaxBudgets + 1) :
          /\ SortedByDateDesc(expenses)
          /\ snapshot = [c \in CollectionNames |->
                            IF c = "expenses" THEN expenses
                            ELSE IF c = "budgets" THEN budgets
                            ELSE <<>>]
    /\ now \in {MonthLen, 2 * MonthLen - 1}
    /\ NothingUnderWay

SpecPeriods == PeriodsInit /\ [][BudgetsRender]_vars

\* a signed-in session whose refresh loaded the dashboard's tables from the
\* store
DashboardInit ==
    /\ user = "u1"
    /\ \E expenses \in SeqsUpTo(DashExpenseRows, MaxExpenses),
          budgets \in SeqsUpTo(DashBudgetRows, MaxBudgets + 1),
          payments \in SeqsUpTo(PaymentRows, MaxPayments) :
          /\ SortedByDateDesc(expenses)
          /\ store = [c \in CollectionNames |->
                         IF c = "expenses" THEN Numbered(expenses)
                         ELSE IF c = "budgets" THEN Numbered(budgets)
                         ELSE IF c = "recurring_payments" THEN Numbered(payments)
                         ELSE <<>>]
    /\ snapshot = [c \in CollectionNames |-> Select(c, user, Len(store[c]))]
    /\ now = MonthLen
    /\ NothingUnderWay

SpecDashboard == DashboardInit /\ [][DashboardRender]_vars

\* a signed-in session after a refresh loaded expenses, savings challenges
\* and insights
SlicesInit ==
    /\ user = "u1"
    /\ store = [c \in CollectionNames |-> <<>>]
    /\ \E expenses \in SeqsUpTo(SliceExpenseRows, RecentCount + MaxExtra),
          challenges \in SeqsUpTo(ChallengeRows, ChallengesShown + MaxExtra),
          insights \in SeqsUpTo(InsightRows, InsightsShown + MaxExtra) :
          /\ SortedByDateDesc(expenses)
          /\ snapshot = [c \in CollectionNames |->
                            IF c = "expenses" THEN Numbered(expenses)
                            ELSE IF c = "savings_challenges" THEN Numbered(challenges)
                            ELSE IF c = "insights" THEN Numbered(insights)
                            ELSE <<>>]
    /\ now = MonthLen
    /\ NothingUnderWay

SpecSlices == SlicesInit /\ [][DashboardRender]_vars

\* a signed-in session after a refresh loaded budgets that may share a
\* category; both pages are visited at the same instant
SharedInit ==
    /\ user = "u1"
    /\ store = [c \in CollectionNames |-> <<>>]
    /\ \E expenses \in SeqsUpTo(SharedExpenseRows, MaxExpenses),
          budgets \in SeqsUpTo(SharedBudgetRows, MaxBudgets + 1) :
          /\ SortedByDateDesc(expenses)
          /\ snapshot = [c \in CollectionNames |->
                            IF c = "expenses" THEN expenses
                            ELSE IF c = "budgets" THEN budgets
                            ELSE <<>>]
    /\ now = MonthLen
    /\ NothingUnderWay

SpecShared == SharedInit /\ [][CalcNext]_vars

\* the routes App wraps in Layout
ProtectedRoutes == {"/", "/expense", "/budgets"}

LayoutRedirectingWhileLoading(isLoading, u) ==
    IF u = Null THEN [shows |-> "redirect", to |-> "/auth"]
    ELSE IF isLoading THEN [shows |-> "spinner", to |-> "none"]
    ELSE [shows |-> "content", to |-> "none"]

\* Layout, lines 11-40: what the component returns
Layout(isLoading, u) ==
    IF isLoading THEN [shows |-> "spinner", to |-> "none"]
    ELSE IF u = Null THEN [shows |-> "redirect", to |-> "/auth"]
    ELSE [shows |-> "content", to |-> "none"]

\* the router renders the element of a protected route
LayoutRender(route) ==
    /\ view' = [route |-> route,
                shows |-> Layout(authLoading, user).shows,
                to |-> Layout(authLoading, user).to]
    /\ UNCHANGED <<now, budgetProgress, renderedAt, monthlyStats, slices, authLoading>>
    /\ UNCHANGED facadeVars
    /\ UNCHANGED pageVars

\* the auth provider starts or ends loading
AuthLoading(isLoading) ==
    /\ authLoading # isLoading
    /\ authLoading' = isLoading
    /\ UNCHANGED <<now, budgetProgress, renderedAt, monthlyStats, slices, view>>
    /\ UNCHANGED facadeVars
    /\ UNCHANGED pageVars

\* the application starts: the auth provider is loading, nobody is signed in
LayoutInit ==
    /\ FacadeInit
    /\ now = MonthLen
    /\ MemosIdle
    /\ PageIdle
    /\ authLoading = TRUE
    /\ view = NoView

LayoutNext ==
    \/ \E isLoading \in BOOLEAN : AuthLoading(isLoading)
    \/ \E u \in Users : SignIn(u)
    \/ SignOut
    \/ \E r \in Invocations : FetchAll(r)
    \/ \E r \in Invocations : Continue(r)
    \/ \E route \in ProtectedRoutes : LayoutRender(route)

SpecLayout == LayoutInit /\ [][LayoutNext]_vars

\* a signed-in session on the QuickExpense page, its refresh done
RegretInit ==
    /\ user = "u1"
    /\ store = [c \in CollectionNames |-> InitialRows]
    /\ snapshot = [c \in CollectionNames |-> Select(c, user, Len(store[c]))]
    /\ now = MonthLen
    /\ NothingUnderWay

RegretNext ==
    \/ \E data \in RegretForms : SubmitExpense(data)
    \/ \E h \in Handlers : WriteSettles(h)
    \/ \E r \in Invocations : FetchAll(r)
    \/ \E r \in Invocations : Continue(r)

SpecRegret == RegretInit /\ [][RegretNext]_vars

----
(* Properties of the budget progress calculator and the dashboard aggregator *)

loadedExpenses == snapshot["expenses"]
loadedBudgets == snapshot["budgets"]

MonthOf(t) == t \div MonthLen

\* the calendar month a stored timestamp lies in
MonthOfDate(d) ==
    CHOOSE m \in 0..3 : m * MonthLen * SubTicks <= d /\ d < (m + 1) * MonthLen * SubTicks

\* the Date instant a stored timestamp denotes
InstantOf(d) ==
    CHOOSE t \in 0..(4 * MonthLen) : t * SubTicks <= d /\ d < (t + 1) * SubTicks

\* the first and the last instant of the month of now
FirstInstant ==
    CHOOSE t \in 0..(4 * MonthLen) :
        MonthOf(t) = MonthOf(now) /\ (t = 0 \/ MonthOf(t - 1) # MonthOf(now))

LastInstant ==
    CHOOSE t \in 0..(4 * MonthLen) :
        MonthOf(t) = MonthOf(now) /\ MonthOf(t + 1) # MonthOf(now)

RECURSIVE AmountOver(_)
\* the sum of the amounts of the loaded expenses at a set of positions
AmountOver(J) ==
    IF J = {} THEN 0
    ELSE LET j == CHOOSE k \in J : TRUE
         IN  loadedExpenses[j].amount + AmountOver(J \ {j})

\* the expenses of a budget's category dated in the current month
MatchingInMonth(budget) ==
    {j \in DOMAIN loadedExpenses :
        /\ loadedExpenses[j].category_id = budget.category_id
        /\ MonthOfDate(loadedExpenses[j].date) = MonthOf(now)}

\* C1: spent of a budget is the sum of the amounts of exactly the expenses of
\* the budget's category that are dated in the current calendar month;
\* expenses of other categories, without category or outside the month add
\* nothing.
C1_SpentIsCategoryMonthSum ==
    budgetProgress.computed =>
        \A i \in DOMAIN budgetProgress.value :
            budgetProgress.value[i].spent = AmountOver(MatchingInMonth(loadedBudgets[i]))

C1_Witness ==
    /\ budgetProgress.computed
    /\ \E i \in DOMAIN budgetProgress.value :
          /\ budgetProgress.value[i].spent > 0
          /\ \E j \in DOMAIN loadedExpenses :
                j \notin MatchingInMonth(loadedBudgets[i])

\* C2: remaining is the budget amount minus spent, signed and unclamped: it
\* is negative exactly when spent exceeds the amount.
C2_RemainingSigned ==
    budgetProgress.computed =>
        \A i \in DOMAIN budgetProgress.value :
            LET p == budgetProgress.value[i]
            IN  /\ p.remaining + p.spent = loadedBudgets[i].amount
                /\ (p.remaining < 0) <=> (p.spent > loadedBudgets[i].amount)

C2_Witness ==
    /\ budgetProgress.computed
    /\ \E i \in DOMAIN budgetProgress.value :
          /\ budgetProgress.value[i].spent > loadedBudgets[i].amount
          /\ budgetProgress.value[i].remaining < 0

\* C3: for a budget with a positive amount, percentage is
\* min(100, 100 * spent / amount): 0 when no expense matches, exactly 100
\* whenever spent is at least the amount.
C3_PercentageClamped ==
    budgetProgress.computed =>
        \A i \in DOMAIN budgetProgress.value :
            LET p == budgetProgress.value[i]
                amount == loadedBudgets[i].amount
                matched == AmountOver(MatchingInMonth(loadedBudgets[i]))
            IN  amount > 0 =>
                    /\ p.percentage.kind = "finite"
                    /\ matched >= amount => p.percentage.n = 100 * p.percentage.d
                    /\ matched < amount =>
                          p.percentage.n * amount = 100 * matched * p.percentage.d
                    /\ MatchingInMonth(loadedBudgets[i]) = {} => p.percentage.n = 0

C3_Witness ==
    /\ budgetProgress.computed
    /\ \E i \in DOMAIN budgetProgress.value :
          /\ loadedBudgets[i].amount > 0
          /\ budgetProgress.value[i].spent > loadedBudgets[i].amount
          /\ budgetProgress.value[i].percentage = Num(100)

\* C4: isOverBudget holds exactly when spent is strictly greater than the
\* amount; a budget whose spent equals its amount shows 100 percent and is
\* not over budget.
C4_OverBudgetStrict ==
    budgetProgress.computed =>
        \A i \in DOMAIN budgetProgress.value :
            budgetProgress.value[i].isOverBudget <=>
                AmountOver(MatchingInMonth(loadedBudgets[i])) > loadedBudgets[i].amount

C4_Witness ==
    /\ budgetProgress.computed
    /\ \E i \in DOMAIN budgetProgress.value :
          /\ loadedBudgets[i].amount > 0
          /\ budgetProgress.value[i].spent = loadedBudgets[i].amount
          /\ budgetProgress.value[i].percentage = Num(100)
          /\ ~budgetProgress.value[i].isOverBudget

\* the expenses whose instant lies between the first and the last instant of
\* the current month, both included
BetweenFirstAndLast ==
    {j \in DOMAIN loadedExpenses :
        /\ FirstInstant <= InstantOf(loadedExpenses[j].date)
        /\ InstantOf(loadedExpenses[j].date) <= LastInstant}

\* C5: the month window of both calculators includes its two ends: an
\* expense at the first instant and one at the last instant of the current
\* month are counted, one an instant earlier or later is not.
C5_WindowInclusive ==
    /\ budgetProgress.computed =>
          \A i \in DOMAIN budgetProgress.value :
              budgetProgress.value[i].spent =
                  AmountOver({j \in BetweenFirstAndLast :
                                loadedExpenses[j].category_id = loadedBudgets[i].category_id})
    /\ monthlyStats.computed =>
          /\ monthlyStats.value.expenseCount = Cardinality(BetweenFirstAndLast)
          /\ monthlyStats.value.totalSpent = AmountOver(BetweenFirstAndLast)

C5_Witness ==
    /\ budgetProgress.computed
    /\ monthlyStats.computed
    /\ \E j, k \in DOMAIN loadedExpenses :
          /\ InstantOf(loadedExpenses[j].date) = FirstInstant
          /\ InstantOf(loadedExpenses[k].date) = LastInstant
          /\ FirstInstant # LastInstant
    /\ monthlyStats.value.expenseCount = 2
    /\ \E i \in DOMAIN budgetProgress.value :
          budgetProgress.value[i].spent = AmountOver(DOMAIN loadedExpenses)

----------------------------------------------------------------------------
(* Properties of the data access facade *)

LogPos(ev, r) == CHOOSE i \in DOMAIN log : log[i].ev = ev /\ log[i].r = r

\* the invocations whose continuation has run, and the one that ran last
Done == {r \in Invocations : pc[r] = "done"}

ResolvedLast(r) ==
    r \in Done /\ \A q \in Done : LogPos("done", q) <= LogPos("done", r)

\* q resolved, and r is the next invocation to resolve after it
ResolvedNextAfter(q, r) ==
    /\ q \in Done /\ r \in Done /\ q # r
    /\ LogPos("done", q) < LogPos("done", r)
    /\ \A x \in Done \ {q, r} :
          LogPos("done", x) < LogPos("done", q) \/ LogPos("done", x) > LogPos("done", r)

\* each of the two was started before the other resolved
Overlap(q, r) ==
    /\ LogPos("start", q) < LogPos("done", r)
    /\ LogPos("start", r) < LogPos("done", q)

\* the continuation of r replaced collection c by fetched rows
Replaced(r, c) == ~AnyRejected(r) /\ ~results[r][c].data.null

\* C6: when the fetch of a collection fails in a refresh, the continuation
\* of that refresh leaves the snapshot of the collection as it was.
C6_FailedFetchKeepsSnapshot ==
    [][\A r \in Invocations, c \in CollectionNames :
          (pc[r] = "settled" /\ pc'[r] = "done" /\ Failed(results[r][c]))
              => snapshot'[c] = snapshot[c]]_vars

C6_Witness ==
    \E q, r \in Invocations, c \in CollectionNames :
        /\ ResolvedNextAfter(q, r)
        /\ ResolvedLast(r)
        /\ results[r][c] = FulfilledError
        /\ Replaced(q, c)
        /\ snapshot[c] = results[q][c].data.rows
        /\ snapshot[c] # <<>>

\* C7: a failed fetch, reported as an error result or as a rejected request,
\* does not keep the other collections from loading: every collection whose
\* own fetch came back with rows is replaced by those rows.
C7_FailureDoesNotBlockOthers ==
    [][\A r \in Invocations, c \in CollectionNames :
          (pc[r] = "settled" /\ pc'[r] = "done" /\ ~results[r][c].data.null)
              => snapshot'[c] = results[r][c].data.rows]_vars

\* C8: a snapshot changes only in the continuation of a refresh whose eight
\* fetches have all come back, and each collection then holds either what it
\* held or exactly the rows fetched for it.
C8_PublishAfterJoinWholesale ==
    [][snapshot' # snapshot =>
          \E r \in Invocations :
              /\ pc[r] = "settled" /\ pc'[r] = "done"
              /\ \A c \in CollectionNames : Fulfilled(results[r][c])
              /\ \A c \in CollectionNames :
                    \/ snapshot'[c] = snapshot[c]
                    \/ ~results[r][c].data.null /\ snapshot'[c] = results[r][c].data.rows]_vars

C8_Witness ==
    \E q, r \in Invocations :
        /\ ResolvedNextAfter(q, r)
        /\ ResolvedLast(r)
        /\ \A c \in CollectionNames : Replaced(q, c) /\ Replaced(r, c)
        /\ \E c \in CollectionNames : results[q][c] # results[r][c]
        /\ \A c \in CollectionNames : snapshot[c] = results[r][c].data.rows

\* C9 as claimed: after two overlapping refreshes have both resolved, every
\* collection holds the result of the one that resolved last.
C9_LastResolvedWins ==
    \A q, r \in Invocations :
        (ResolvedNextAfter(q, r) /\ ResolvedLast(r) /\ Overlap(q, r)) =>
            \A c \in CollectionNames :
                ~results[r][c].data.null /\ snapshot[c] = results[r][c].data.rows

\* C9 amended: after two overlapping refreshes have both resolved, a
\* collection holds the rows fetched by the one that resolved last if that
\* one replaced the collection, also when it was started first and carries
\* older rows; otherwise it holds the rows of the one that resolved before,
\* if that one replaced it.  No refresh is cancelled by a later one.
C9_LastReplacerWins ==
    \A q, r \in Invocations :
        (ResolvedNextAfter(q, r) /\ ResolvedLast(r) /\ Overlap(q, r)) =>
            \A c \in CollectionNames :
                /\ Replaced(r, c) => snapshot[c] = results[r][c].data.rows
                /\ (~Replaced(r, c) /\ Replaced(q, c)) => snapshot[c] = results[q][c].data.rows

C9_Witness ==
    /\ ResolvedNextAfter(2, 1) /\ ResolvedLast(1) /\ Overlap(2, 1)
    /\ Replaced(1, "expenses") /\ Replaced(2, "expenses")
    /\ Len(results[1]["expenses"].data.rows) < Len(results[2]["expenses"].data.rows)
    /\ snapshot["expenses"] = results[1]["expenses"].data.rows

\* q resolved before r was started, both fetch for the same user, and the
\* store was not written since q was started
InSequenceNoWrite(q, r) ==
    /\ ResolvedNextAfter(q, r) /\ ResolvedLast(r)
    /\ requests[q] = requests[r]
    /\ LogPos("done", q) < LogPos("start", r)
    /\ \A c \in CollectionNames : issued[q][c] = Len(store[c])

\* C10 as claimed: a second refresh in sequence, with no write to the store
\* in between, leaves every snapshot as the first left it.
C10_RefreshIdempotent ==
    \A q, r \in Invocations :
        InSequenceNoWrite(q, r) => snapshot = log[LogPos("done", q)].snap

\* C10 amended: a second refresh in sequence, with no write to the store in
\* between, leaves every collection that the first refresh replaced as the
\* first left it.
C10_RefreshIdempotentOnReplaced ==
    \A q, r \in Invocations :
        InSequenceNoWrite(q, r) =>
            \A c \in CollectionNames :
                Replaced(q, c) => snapshot[c] = log[LogPos("done", q)].snap[c]

C10_Witness ==
    \E q, r \in Invocations :
        /\ InSequenceNoWrite(q, r)
        /\ \A c \in CollectionNames : Replaced(q, c) /\ Replaced(r, c)
        /\ snapshot = log[LogPos("done", q)].snap
        /\ \A c \in CollectionNames : snapshot[c] # <<>>

\* invocation r sent its fetches to the store
Fetches(r) == pc[r] \in {"fetching", "settled", "done"}

OneFetchPerCollection(r) ==
    /\ Len(requests[r]) = Len(Collections)
    /\ \A c \in CollectionNames :
          Cardinality({i \in DOMAIN requests[r] : requests[r][i].from = c}) = 1

----------------------------------------------------------------------------
(* Properties of the pages' writes *)

\* the remote call of operation h was sent
Sent(h) == ops[h].pc \in {"writing", "refreshing", "done", "failed"}

\* nothing is under way: no refresh, no write
Quiescent ==
    /\ \A r \in Invocations : pc[r] \in {"idle", "returned", "done"}
    /\ \A h \in Handlers : ops[h].pc \notin {"writing", "refreshing"}

C13_FailedWriteChangesNothing ==
    [][\A h \in Handlers :
          (ops[h].pc = "writing" /\ ops'[h].pc = "failed") =>
              /\ ops'[h].toast = "error"
              /\ snapshot' = snapshot
              /\ store' = store
              /\ showForm' = showForm
              /\ editingBudget' = editingBudget]_vars

C13_Witness ==
    \E h \in Handlers :
        /\ ops[h].kind = "budget.update" /\ ops[h].pc = "failed" /\ ops[h].toast = "error"
        /\ showForm
        /\ editingBudget # <<>>
        /\ editingBudget[1].id = ops[h].target
        /\ editingBudget[1] \in {snapshot["budgets"][i] : i \in DOMAIN snapshot["budgets"]}
        /\ store["budgets"] = InitialRows

\* C14: a submission that fails validation sends nothing to the store: every
\* expense insert that was sent carries an amount of at least 0.01 and a
\* description, every budget insert or update that was sent carries a
\* category and an amount of at least 0.01, and the store was written only by
\* operations that were sent.
C14_InvalidFormSendsNothing ==
    /\ \A h \in Handlers :
          /\ (Sent(h) /\ ops[h].kind = "expense.insert") =>
                 /\ ~ops[h].data.amount.blank
                 /\ ops[h].data.amount.n >= MinAmount
                 /\ ops[h].data.description # ""
          /\ (Sent(h) /\ ops[h].kind \in {"budget.insert", "budget.update"}) =>
                 /\ ops[h].data.category_id # ""
                 /\ ~ops[h].data.amount.blank
                 /\ ops[h].data.amount.n >= MinAmount
    /\ WriteCount <= Cardinality({h \in Handlers : Sent(h) /\ ops[h].toast = "success"})

C14_Witness ==
    \E h \in Handlers :
        /\ ops[h].kind = "expense.insert" /\ ops[h].pc = "invalid"
        /\ ops[h].data.amount = Typed(0) /\ ops[h].data.description # ""
        /\ errors["QuickExpense"] = {"amount"}
        /\ \A c \in CollectionNames : store[c] = InitialRows

----------------------------------------------------------------------------
(* Properties of the dashboard's statistics and slices *)

loadedPayments == snapshot["recurring_payments"]

\* the Date instant a due date denotes
DueInstant(d) ==
    CHOOSE t \in 0..(MonthLen + 9 * DayLen) : t * SubTicks <= d /\ d < (t + 1) * SubTicks

\* the payments due from the evaluation instant to seven days after it, both
\* ends included
DueWithinNextWeek ==
    LET Within(payment) ==
            /\ now <= DueInstant(payment.next_due_date)
            /\ DueInstant(payment.next_due_date) <= now + DaysAhead * DayLen
    IN  SelectSeq(loadedPayments, Within)

\* C15: upcomingPayments is exactly the loaded recurring payments whose
\* next_due_date lies within the next 7 days from the evaluation instant,
\* inclusive; a payment whose due date is already past is not among them.
C15_UpcomingWithinNextWeek ==
    monthlyStats.computed => monthlyStats.value.upcomingPayments = DueWithinNextWeek

\* the loaded expenses dated in the current calendar month
InMonth ==
    {j \in DOMAIN loadedExpenses : MonthOfDate(loadedExpenses[j].date) = MonthOf(now)}

\* C16: totalSpent is the sum of the amounts of all loaded expenses dated in
\* the current calendar month, whatever their category, and expenseCount is
\* the number of those expenses.
C16_TotalSpentOverMonth ==
    monthlyStats.computed =>
        /\ monthlyStats.value.totalSpent = AmountOver(InMonth)
        /\ monthlyStats.value.expenseCount = Cardinality(InMonth)
        /\ \A j \in DOMAIN loadedExpenses :
              MonthOfDate(loadedExpenses[j].date) = MonthOf(now) =>
                  monthlyStats.value.totalSpent >= loadedExpenses[j].amount

C16_Witness ==
    /\ monthlyStats.computed
    /\ monthlyStats.value.expenseCount = 2
    /\ monthlyStats.value.totalSpent = 3
    /\ \E j, k \in InMonth :
          /\ loadedExpenses[j].category_id = Null
          /\ loadedExpenses[k].category_id = "c1"

\* the stored budgets of the signed-in user that are active
ActiveStored ==
    {i \in DOMAIN store["budgets"] :
        /\ store["budgets"][i].user_id = user
        /\ store["budgets"][i].is_active}

RECURSIVE StoredAmountOver(_)
StoredAmountOver(I) ==
    IF I = {} THEN 0
    ELSE LET i == CHOOSE k \in I : TRUE
         IN  store["budgets"][i].amount + StoredAmountOver(I \ {i})

\* C17: totalBudget is the sum of the amounts of the active budgets only,
\* whatever month they were saved for, and budgetRemaining is totalBudget
\* minus totalSpent, negative when more was spent.
C17_TotalBudgetActiveOnly ==
    monthlyStats.computed =>
        /\ monthlyStats.value.totalBudget = StoredAmountOver(ActiveStored)
        /\ monthlyStats.value.budgetRemaining + monthlyStats.value.totalSpent =
              monthlyStats.value.totalBudget
        /\ monthlyStats.value.budgetRemaining < 0 <=>
              monthlyStats.value.totalSpent > monthlyStats.value.totalBudget

C17_Witness ==
    /\ monthlyStats.computed
    /\ \E i, j \in DOMAIN store["budgets"] :
          /\ ~store["budgets"][i].is_active
          /\ store["budgets"][j].is_active
          /\ InstantOf(store["budgets"][j].end_date) < FirstInstant
    /\ monthlyStats.value.totalBudget = 3
    /\ monthlyStats.value.totalSpent = 4
    /\ monthlyStats.value.budgetRemaining = -1

\* C18: regretSpending is the sum of the amounts of exactly the expenses of
\* the current month that are flagged is_regret; a regret expense outside
\* the month adds nothing.
C18_RegretSpendingInMonth ==
    monthlyStats.computed =>
        monthlyStats.value.regretSpending =
            AmountOver({j \in InMonth : loadedExpenses[j].is_regret})

C18_Witness ==
    /\ monthlyStats.computed
    /\ \E j, k \in InMonth :
          /\ loadedExpenses[j].is_regret /\ loadedExpenses[j].amount = 1
          /\ ~loadedExpenses[k].is_regret /\ loadedExpenses[k].amount = 2
    /\ monthlyStats.value.regretSpending = 1
    /\ monthlyStats.value.totalSpent = 3

\* two budgets that differ at most in period, start_date and end_date
SameButPeriod(a, b) == a.category_id = b.category_id /\ a.amount = b.amount

\* C19: every budget gets the window of the current calendar month, whatever
\* its period and its stored start and end dates: budgets that differ only in
\* those fields get the same spent, remaining, percentage and isOverBudget.
C19_SameWindowForEveryPeriod ==
    budgetProgress.computed =>
        \A i, j \in DOMAIN budgetProgress.value :
            SameButPeriod(loadedBudgets[i], loadedBudgets[j]) =>
                /\ budgetProgress.value[i].spent = budgetProgress.value[j].spent
                /\ budgetProgress.value[i].remaining = budgetProgress.value[j].remaining
                /\ budgetProgress.value[i].percentage = budgetProgress.value[j].percentage
                /\ budgetProgress.value[i].isOverBudget = budgetProgress.value[j].isOverBudget

C19_Witness ==
    /\ budgetProgress.computed
    /\ \E i, j \in DOMAIN budgetProgress.value :
          /\ loadedBudgets[i].period = "weekly"
          /\ loadedBudgets[j].period = "yearly"
          /\ loadedBudgets[i].start_date # loadedBudgets[j].start_date
          /\ loadedBudgets[i].end_date # loadedBudgets[j].end_date
          /\ budgetProgress.value[i].spent > 0
          /\ \E k \in DOMAIN loadedExpenses :
                /\ k \notin InMonth
                /\ InstantOf(loadedBudgets[i].start_date) <= InstantOf(loadedExpenses[k].date)
                /\ InstantOf(loadedExpenses[k].date) <= InstantOf(loadedBudgets[i].end_date)

\* the positions of a list whose row passes a test, and the k-th of them
Passing(rows, Test(_)) == {i \in DOMAIN rows : Test(rows[i])}

Nth(I, k) == CHOOSE i \in I : Cardinality({j \in I : j < i}) = k - 1

\* a list is the first at most n rows of another that pass a test, in order
FirstPassing(shown, rows, Test(_), n) ==
    LET I == Passing(rows, Test)
    IN  /\ Len(shown) = IF Cardinality(I) < n THEN Cardinality(I) ELSE n
        /\ \A k \in DOMAIN shown : shown[k] = rows[Nth(I, k)]

AnyRow(row) == TRUE

Incomplete(challenge) == ~challenge.is_completed

Unread(insight) == ~insight.is_read

\* C20: the slices are the first 5 loaded expenses in their order, the first
\* at most 3 savings challenges not completed and the first at most 3
\* insights not read, each in the order loaded; computing them changes no
\* snapshot.
C20_SlicesInSnapshotOrder ==
    /\ [](slices.computed =>
            /\ FirstPassing(slices.value.recentExpenses, loadedExpenses, AnyRow, 5)
            /\ FirstPassing(slices.value.activeChallenges,
                            snapshot["savings_challenges"], Incomplete, 3)
            /\ FirstPassing(slices.value.unreadInsights, snapshot["insights"], Unread, 3))
    /\ [][slices' # slices => snapshot' = snapshot]_vars

C20_Witness ==
    /\ slices.computed
    /\ Len(loadedExpenses) > 5
    /\ Len(slices.value.recentExpenses) = 5
    /\ loadedExpenses[1].date > loadedExpenses[2].date
    /\ Len(snapshot["savings_challenges"]) = 4
    /\ snapshot["savings_challenges"][1].is_completed
    /\ Len(slices.value.activeChallenges) = 3
    /\ Len(snapshot["insights"]) = 4
    /\ Cardinality(Passing(snapshot["insights"], Unread)) = 2
    /\ Len(slices.value.unreadInsights) = 2
----------------------------------------------------------------------------
(* Properties of the submitted expense rows *)

\* C21: an expense row sent by the quick-expense form has a regret_reason
\* and a regret_intensity only when is_regret is true, both are null
\* otherwise, and an intensity that is not null is one of 1..5.
C21_RegretFieldsOnlyWithRegret ==
    \A h \in Handlers :
        (ops[h].kind = "expense.insert" /\ Sent(h)) =>
            LET row == ops[h].payload
            IN  /\ row.is_regret = ops[h].data.is_regret
                /\ ~row.is_regret => row.regret_reason = Null /\ row.regret_intensity.isNull
                /\ ~row.regret_intensity.isNull =>
                      /\ row.is_regret
                      /\ row.regret_intensity.n \in 1..5
                /\ row.regret_reason # Null => row.is_regret

C21_Witness ==
    \E h \in Handlers :
        /\ ops[h].kind = "expense.insert"
        /\ ops[h].toast = "success"
        /\ ~ops[h].data.is_regret
        /\ ops[h].data.regret_reason = "impulse"
        /\ ops[h].data.regret_intensity = 5
        /\ ops[h].payload.regret_reason = Null
        /\ ops[h].payload.regret_intensity = NoNumber
----------------------------------------------------------------------------
(* Properties of the displayed budget progress over time *)

\* C22: the budget progress on display is that of the calendar month current
\* at the time of display: after the month rolled over, with the same
\* snapshots, a render shows spent, remaining and percentage of the new month.
C22_ProgressOfDisplayedMonth ==
    (budgetProgress.computed /\ renderedAt = now) =>
        budgetProgress.value =
            BudgetProgress(loadedBudgets, loadedExpenses, now)
----------------------------------------------------------------------------
(* Properties of the facade's loading flag *)

\* a refresh whose fetches were issued and have not come back
InFlight(r) == pc[r] = "fetching"

\* C23: loading is true whenever a refresh is still in flight, also when two
\* refreshes overlap and only one of them has resolved.
C23_LoadingWhileInFlight ==
    (\E r \in Invocations : InFlight(r)) => loading
----------------------------------------------------------------------------
(* Properties of the forms' isSubmitting flag *)

\* a submission whose handler is between setIsSubmitting(true) and its
\* finally block
Underway(h) == Submits(ops[h].kind) /\ ops[h].pc \in {"writing", "refreshing"}

\* C24: a valid submission by a signed-in user has isSubmitting true from
\* before the remote call until its handler ends, and false once the handler
\* has ended, whether the write succeeded, the write failed or the refresh
\* after it failed; a handler that awaits a refresh awaits one that is still
\* to complete.  A submission without a signed-in user sends nothing and
\* leaves isSubmitting false.
C24_SubmittingWhileUnderway ==
    /\ \A p \in Pages :
          isSubmitting[p] <=> \E h \in Handlers : Underway(h) /\ PageOf(ops[h].kind) = p
    /\ \A h \in Handlers :
          /\ ops[h].pc = "refreshing" => pc[ops[h].awaiting] \in {"fetching", "settled"}
          /\ Sent(h) => ops[h].user_id # Null
          /\ ops[h].pc = "returned" =>
                /\ ops[h].payload = NoPayload
                /\ ops[h].toast = "none"
                /\ ops[h].user_id = Null
    /\ (user = Null /\ \A r \in Invocations : pc[r] = "idle") =>
          /\ \A h \in Handlers : ~Sent(h)
          /\ store = [c \in CollectionNames |-> InitialRows]

C24_Witness ==
    \E h \in Handlers :
        /\ ops[h].kind = "expense.insert"
        /\ ops[h].pc = "done"
        /\ AnyRejected(ops[h].awaiting)
        /\ ~isSubmitting["QuickExpense"]
----------------------------------------------------------------------------
(* Properties of the budget form and of budget deletion *)

\* handler h takes its slot in this step and sends a remote write
Sends(h) == ops[h].kind = "none" /\ ops'[h].pc = "writing"

\* the ids of the stored versions of budgets
BudgetIds(versions) == {versions[i].id : i \in DOMAIN versions}

\* C25: a budget form submission sends an update of exactly the budget being
\* edited when there is one, and an insert otherwise, never both: the update
\* writes at most one row, of the edited id, and adds no id; the insert adds
\* one new id.  A successful save clears the budget being edited and hides
\* the form, so that the submission after it is an insert unless an edit is
\* chosen again.
C25_UpdateWhenEditingElseInsert ==
    [][\A h \in Handlers :
          /\ (Sends(h) /\ PageOf(ops'[h].kind) = "Budgets" /\ Submits(ops'[h].kind)) =>
                 /\ editingBudget # <<>> =>
                        ops'[h].kind = "budget.update" /\ ops'[h].target = editingBudget[1].id
                 /\ editingBudget = <<>> => ops'[h].kind = "budget.insert"
          /\ (ops[h].pc = "writing" /\ ops'[h].toast = "success"
                 /\ ops[h].kind = "budget.update") =>
                 /\ BudgetIds(store'["budgets"]) = BudgetIds(store["budgets"])
                 /\ Len(store'["budgets"]) <= Len(store["budgets"]) + 1
                 /\ \A i \in DOMAIN store'["budgets"] \ DOMAIN store["budgets"] :
                        /\ store'["budgets"][i].id = ops[h].target
                        /\ ~store'["budgets"][i].deleted
                 /\ editingBudget' = <<>> /\ ~showForm'
          /\ (ops[h].pc = "writing" /\ ops'[h].toast = "success"
                 /\ ops[h].kind = "budget.insert") =>
                 /\ Len(store'["budgets"]) = Len(store["budgets"]) + 1
                 /\ store'["budgets"][Len(store'["budgets"])].id
                        \notin BudgetIds(store["budgets"])
                 /\ editingBudget' = <<>> /\ ~showForm']_vars

C25_Witness ==
    \E h \in Handlers :
        /\ ops[h].kind = "budget.update"
        /\ ops[h].toast = "success"
        /\ editingBudget = <<>>
        /\ ~showForm
        /\ Len(store["budgets"]) = Len(InitialRows) + 1
        /\ store["budgets"][Len(store["budgets"])].id = ops[h].target
        /\ store["budgets"][Len(store["budgets"])].amount = ops[h].data.amount.n

\* C26: a budget is deleted only after the user confirmed.  A declined
\* confirmation sends no delete, starts no refresh and leaves every snapshot
\* and the store as they were, for good; a confirmed one sends one delete of
\* that budget's id, which removes at most that budget.
C26_DeleteOnlyWhenConfirmed ==
    [][\A h \in Handlers :
          /\ (ops[h].kind = "none" /\ ops'[h].kind = "budget.delete") =>
                 ops'[h].pc = IF ops'[h].confirmed THEN "writing" ELSE "declined"
          /\ (ops[h].kind = "none" /\ ops'[h].pc = "declined") =>
                 /\ ops'[h].kind = "budget.delete"
                 /\ store' = store /\ snapshot' = snapshot
                 /\ pc' = pc /\ requests' = requests /\ loading' = loading
          /\ ops[h].pc = "declined" => ops'[h] = ops[h]
          /\ (Sends(h) /\ ops'[h].kind = "budget.delete") =>
                 /\ \E i \in DOMAIN snapshot["budgets"] :
                        snapshot["budgets"][i].id = ops'[h].target
                 /\ store' = store
                 /\ \A g \in Handlers \ {h} : ops'[g] = ops[g]
          /\ (ops[h].pc = "writing" /\ ops'[h].toast = "success"
                 /\ ops[h].kind = "budget.delete") =>
                 /\ Len(store'["budgets"]) <= Len(store["budgets"]) + 1
                 /\ \A i \in DOMAIN store'["budgets"] \ DOMAIN store["budgets"] :
                        /\ store'["budgets"][i].id = ops[h].target
                        /\ store'["budgets"][i].deleted
                 /\ \A c \in CollectionNames \ {"budgets"} : store'[c] = store[c]]_vars

C26_Witness ==
    \E h \in Handlers :
        /\ ops[h].kind = "budget.delete"
        /\ ops[h].pc = "declined"
        /\ \E i \in DOMAIN snapshot["budgets"] : snapshot["budgets"][i].id = ops[h].target
        /\ store = [c \in CollectionNames |-> InitialRows]
        /\ \A r \in Invocations : r > 1 => pc[r] = "idle"
        /\ ~loading
----------------------------------------------------------------------------
(* Properties of the snapshots across accounts *)

\* no refresh is between its start and its completion
NoRefreshInFlight == \A r \in Invocations : pc[r] \in {"idle", "returned", "done"}

\* C27: whenever a user is signed in and no refresh is in flight, every
\* snapshot holds only rows of that user, also after a sign-out and a sign-in
\* as another user.
C27_SnapshotsOfSignedInUser ==
    (user # Null /\ NoRefreshInFlight) =>
        \A c \in CollectionNames :
            \A i \in DOMAIN snapshot[c] : snapshot[c][i].user_id = user
----------------------------------------------------------------------------
(* Properties relating the two calculators *)

RECURSIVE SpentSum(_)
\* the sum of spent over a list of budget progress entries
SpentSum(entries) ==
    IF entries = <<>> THEN 0 ELSE entries[1].spent + SpentSum(Tail(entries))

BothComputed == budgetProgress.computed /\ monthlyStats.computed

DistinctCategories ==
    \A i, j \in DOMAIN loadedBudgets :
        i # j => loadedBudgets[i].category_id # loadedBudgets[j].category_id

\* C28 as claimed: over the same snapshots and instant, the sum of spent over
\* all budgets never exceeds totalSpent.
C28_SpentSumWithinTotal ==
    BothComputed => SpentSum(budgetProgress.value) <= monthlyStats.value.totalSpent

\* C28 amended: when no two loaded budgets have the same category, an
\* expense of the month counts toward at most one budget and the sum of spent
\* never exceeds totalSpent; it is the sum of the expenses of the month whose
\* category has a budget.
C28_SpentSumWithinTotalDistinct ==
    (BothComputed /\ DistinctCategories) =>
        /\ SpentSum(budgetProgress.value) <= monthlyStats.value.totalSpent
        /\ SpentSum(budgetProgress.value) =
              AmountOver({j \in InMonth :
                            \E i \in DOMAIN loadedBudgets :
                                loadedBudgets[i].category_id = loadedExpenses[j].category_id})

C28_Witness ==
    /\ BothComputed
    /\ Len(loadedBudgets) = 2
    /\ DistinctCategories
    /\ SpentSum(budgetProgress.value) = 2
    /\ monthlyStats.value.totalSpent = 3
    /\ \E j \in InMonth : loadedExpenses[j].category_id = Null

\* the value of a percentage lies between two whole numbers
Between(x, lo, hi) == x.kind = "finite" /\ lo * x.d <= x.n /\ x.n <= hi * x.d

\* C29: for a budget with a positive amount, the computed fields agree with
\* one another: percentage lies in 0..100, isOverBudget holds exactly when
\* remaining is negative, and percentage is 100 whenever isOverBudget holds.
C29_FieldsConsistent ==
    budgetProgress.computed =>
        \A i \in DOMAIN budgetProgress.value :
            LET p == budgetProgress.value[i]
            IN  loadedBudgets[i].amount > 0 =>
                    /\ Between(p.percentage, 0, 100)
                    /\ p.isOverBudget <=> p.remaining < 0
                    /\ p.isOverBudget => p.percentage = Num(100)

C29_Witness ==
    /\ budgetProgress.computed
    /\ \E i \in DOMAIN budgetProgress.value :
          /\ loadedBudgets[i].amount > 0
          /\ budgetProgress.value[i].remaining = 0
          /\ ~budgetProgress.value[i].isOverBudget
          /\ budgetProgress.value[i].percentage = Num(100)
----------------------------------------------------------------------------
(* Properties of the layout guard *)

\* C30: whatever Layout renders for a protected route, it shows the page only
\* when the auth provider has finished loading and a user is signed in; while
\* the provider is loading it shows the spinner and does not redirect, and
\* once loading has finished without a user it redirects to /auth.
C30_LayoutGuardsPages ==
    [][view' # view =>
          /\ view'.route \in ProtectedRoutes
          /\ authLoading => view'.shows = "spinner" /\ view'.to = "none"
          /\ (~authLoading /\ user = Null) =>
                 view'.shows = "redirect" /\ view'.to = "/auth"
          /\ view'.shows = "content" <=> (~authLoading /\ user # Null)
          /\ user' = user /\ authLoading' = authLoading]_vars

C30_Witness ==
    /\ view = [route |-> "/budgets", shows |-> "spinner", to |-> "none"]
    /\ authLoading
    /\ user = Null
    /\ \E r \in Invocations : pc[r] = "done"
====
